---- MODULE Spec2Model ----
(***************************************************************************)
(* Theme colour generation: the colour utilities (hex <-> HSL, the five    *)
(* shades, WCAG luminance / contrast, text colour) and the                 *)
(* ThemeColorPicker component that drives them.                            *)
(*                                                                         *)
(* A JavaScript string is a sequence of one-character strings.  Numbers    *)
(* the code keeps as doubles are kept exactly: a channel c/255 is the      *)
(* integer c, a quotient is rounded from its numerator and denominator.    *)
(***************************************************************************)
EXTENDS Integers, Sequences, FiniteSets

VARIABLES
    tieUp,      \* direction Math.round takes when the real value is exactly n + 1/2
    input,      \* the argument handed to the colour utilities
    pc,         \* which utility has been applied to input
    threw,      \* TRUE when the call ended in "Invalid hex color"
    valid,      \* result of isValidHex
    hsl,        \* result of hexToHSL
    shadeSet,   \* result of generateShadesFromPrimary
    back,       \* hexToHSL of each entry of shadeSet
    rt,         \* hslToHex of hsl
    other,      \* second colour of a contrast computation
    ratios,     \* contrast ratios computed last
    text,       \* result of getContrastTextColor
    primary,    \* ThemeColorPicker: useState primary
    shades,     \* ThemeColorPicker: useState shades
    ev          \* ThemeColorPicker: the event handled last, and the shades shown before it

vars == << tieUp, input, pc, threw, valid, hsl, shadeSet, back, rt, other,
           ratios, text, primary, shades, ev >>

coreVars == << input, pc, threw, valid, hsl, shadeSet, back, rt, other, ratios, text >>
uiVars == << primary, shades, ev >>

(***************************************************************************)
(* Bounds of the model.                                                    *)
(***************************************************************************)
\* channel values 0..MaxLow and 255-MaxLow..255 are enumerated
MaxLow == 2
\* longest string over Alphabet handed to the validator
MaxLen == 7
\* shade fields 0..MaxEdit and the last one, 4, are the ones the user edits
MaxEdit == 0

(***************************************************************************)
(* Characters and strings.                                                 *)
(***************************************************************************)
Digits16 == << "0", "1", "2", "3", "4", "5", "6", "7",
               "8", "9", "a", "b", "c", "d", "e", "f" >>

UpperDigits16 == << "0", "1", "2", "3", "4", "5", "6", "7",
                    "8", "9", "A", "B", "C", "D", "E", "F" >>

\* the characters the class [a-f\d] matches under the i flag
HexChars == { Digits16[i] : i \in 1..16 } \cup { UpperDigits16[i] : i \in 1..16 }

\* the JavaScript value null: no string, since it is not made of single characters
Null == << "null" >>

\* String(v), the coercion RegExp.prototype.exec / test apply to their argument
JSString(v) == IF v = Null THEN << "n", "u", "l", "l" >> ELSE v

\* value of one hexadecimal digit, either case
DigitValue(c) == (CHOOSE i \in 1..16 : Digits16[i] = c \/ UpperDigits16[i] = c) - 1

\* parseInt(s, 16) for a string of hexadecimal digits
RECURSIVE parseInt16(_)
parseInt16(s) ==
    IF Len(s) = 0 THEN 0
    ELSE 16 * parseInt16(SubSeq(s, 1, Len(s) - 1)) + DigitValue(s[Len(s)])

\* Number.prototype.toString(16) for an integer v >= 0
RECURSIVE toString16(_)
toString16(v) ==
    IF v < 16 THEN << Digits16[v + 1] >>
    ELSE toString16(v \div 16) \o << Digits16[(v % 16) + 1] >>

\* String.prototype.padStart(2, '0')
padStart2(s) == IF Len(s) < 2 THEN << "0" >> \o s ELSE s

\* String.prototype.toUpperCase on hexadecimal digits (used to build inputs)
UpperCase(s) ==
    [ i \in 1..Len(s) |->
        IF \E k \in 1..16 : Digits16[k] = s[i]
        THEN UpperDigits16[CHOOSE k \in 1..16 : Digits16[k] = s[i]]
        ELSE s[i] ]

(***************************************************************************)
(* HEX_REGEX = /^#?([a-f\d]{2})([a-f\d]{2})([a-f\d]{2})$/i                 *)
(***************************************************************************)
NoMatch == << >>

\* the pattern without its closing $ anchor
HEX_REGEX_unanchored(hex) ==
    LET str == JSString(hex)
        start == IF Len(str) > 0 /\ str[1] = "#" THEN 2 ELSE 1
    IN  IF /\ Len(str) >= start + 5
           /\ \A i \in start..(start + 5) : str[i] \in HexChars
        THEN << SubSeq(str, start, start + 1),
                SubSeq(str, start + 2, start + 3),
                SubSeq(str, start + 4, start + 5) >>
        ELSE NoMatch

\* HEX_REGEX.exec(hex): NoMatch (null) or the three captured pairs.
\* The matcher walks the string: an optional "#", then exactly six
\* characters of the class, then the end of input.
HEX_REGEX(hex) ==
    LET str == JSString(hex)
        start == IF Len(str) > 0 /\ str[1] = "#" THEN 2 ELSE 1
    IN  IF /\ Len(str) = start + 5
           /\ \A i \in start..(start + 5) : str[i] \in HexChars
        THEN << SubSeq(str, start, start + 1),
                SubSeq(str, start + 2, start + 3),
                SubSeq(str, start + 4, start + 5) >>
        ELSE NoMatch

isValidHex(hex) == HEX_REGEX(hex) # NoMatch

(***************************************************************************)
(* Arithmetic on doubles, kept exact.                                      *)
(***************************************************************************)
Max2(a, b) == IF a >= b THEN a ELSE b
Min2(a, b) == IF a <= b THEN a ELSE b
Max3(a, b, c) == Max2(a, Max2(b, c))
Min3(a, b, c) == Min2(a, Min2(b, c))

\* Math.round(p / q) for integers p >= 0, q > 0.  Math.round rounds the
\* double it is given to the nearest integer, halves upward.  The double
\* differs from the real p/q by rounding error, which decides the result
\* only when p/q is exactly n + 1/2: there the double can lie on either
\* side, so the direction is tieUp, unknown to the model.
MathRound(p, q) ==
    LET n == 2 * p + q
        d == 2 * q
    IN  IF n % d = 0 /\ ~tieUp THEN (n \div d) - 1 ELSE n \div d

(***************************************************************************)
(* hexToHSL.  With R, G, B the parsed bytes (r = R/255 ...), mx and mn     *)
(* their extremes and d = mx - mn:                                         *)
(*   l * 100 = 100 (mx + mn) / 510                                         *)
(*   l > 0.5  <=>  mx + mn > 255                                           *)
(*   s * 100 = 100 d / (510 - mx - mn)   or   100 d / (mx + mn)            *)
(*   h * 360 = (60 (G - B) + (G < B ? 360 d : 0)) / d          (max = r)   *)
(*             (60 (B - R) + 120 d) / d                        (max = g)   *)
(*             (60 (R - G) + 240 d) / d                        (max = b)   *)
(***************************************************************************)
\* the call throws Error(`Invalid hex color: ...`)
hexToHSLThrows(hex) == HEX_REGEX(hex) = NoMatch

\* hexToHSL with the test l > 0.5 of the saturation inverted
hexToHSL_flippedSaturation(hex) ==
    LET result == HEX_REGEX(hex)
        R == parseInt16(result[1])
        G == parseInt16(result[2])
        B == parseInt16(result[3])
        mx == Max3(R, G, B)
        mn == Min3(R, G, B)
        d == mx - mn
        sden == IF mx + mn > 255 THEN mx + mn ELSE 510 - mx - mn
        hnum == IF mx = R THEN 60 * (G - B) + (IF G < B THEN 360 * d ELSE 0)
                ELSE IF mx = G THEN 60 * (B - R) + 120 * d
                ELSE 60 * (R - G) + 240 * d
    IN  IF mx # mn
        THEN [ h |-> MathRound(hnum, d),
               s |-> MathRound(100 * d, sden),
               l |-> MathRound(100 * (mx + mn), 510) ]
        ELSE [ h |-> 0, s |-> 0, l |-> MathRound(100 * (mx + mn), 510) ]

\* hexToHSL without the (g < b ? 6 : 0) term of the red sector
hexToHSL_noSectorShift(hex) ==
    LET result == HEX_REGEX(hex)
        R == parseInt16(result[1])
        G == parseInt16(result[2])
        B == parseInt16(result[3])
        mx == Max3(R, G, B)
        mn == Min3(R, G, B)
        d == mx - mn
        sden == IF mx + mn > 255 THEN 510 - mx - mn ELSE mx + mn
        hnum == IF mx = R THEN 60 * (G - B)
                ELSE IF mx = G THEN 60 * (B - R) + 120 * d
                ELSE 60 * (R - G) + 240 * d
    IN  IF mx # mn
        THEN [ h |-> MathRound(hnum, d),
               s |-> MathRound(100 * d, sden),
               l |-> MathRound(100 * (mx + mn), 510) ]
        ELSE [ h |-> 0, s |-> 0, l |-> MathRound(100 * (mx + mn), 510) ]

hexToHSL(hex) ==
    LET result == HEX_REGEX(hex)
        R == parseInt16(result[1])
        G == parseInt16(result[2])
        B == parseInt16(result[3])
        mx == Max3(R, G, B)
        mn == Min3(R, G, B)
        d == mx - mn
        sden == IF mx + mn > 255 THEN 510 - mx - mn ELSE mx + mn
        hnum == IF mx = R THEN 60 * (G - B) + (IF G < B THEN 360 * d ELSE 0)
                ELSE IF mx = G THEN 60 * (B - R) + 120 * d
                ELSE 60 * (R - G) + 240 * d
    IN  IF mx # mn
        THEN [ h |-> MathRound(hnum, d),
               s |-> MathRound(100 * d, sden),
               l |-> MathRound(100 * (mx + mn), 510) ]
        ELSE [ h |-> 0, s |-> 0, l |-> MathRound(100 * (mx + mn), 510) ]

(***************************************************************************)
(* hslToHex.  s and l arrive as percentages, h in degrees.  With           *)
(* m = min(l, 100 - l), a = s m / 10000; k = (n + h/30) % 12 is kept as    *)
(* k30 = 30 k = (30 n + h) % 360, and t30 = 30 max(min(k-3, 9-k, 1), -1).  *)
(*   255 * color = 255 (3000 l - s m t30) / 300000                         *)
(***************************************************************************)
\* hslChannel with a = s * l in place of s * min(l, 1 - l)
hslChannel_noMin(n, h, s, l) ==
    LET m == l
        k30 == (30 * n + h) % 360
        t30 == Max2(Min3(k30 - 90, 270 - k30, 30), -30)
        v == 255 * (3000 * l - s * m * t30)
    IN  padStart2(toString16(IF v < 0 THEN 0 ELSE MathRound(v, 300000)))

hslChannel(n, h, s, l) ==
    LET m == Min2(l, 100 - l)
        k30 == (30 * n + h) % 360
        t30 == Max2(Min3(k30 - 90, 270 - k30, 30), -30)
    IN  padStart2(toString16(MathRound(255 * (3000 * l - s * m * t30), 300000)))

\* hslToHex with the green and blue offsets exchanged
hslToHex_swappedChannels(h, s, l) ==
    << "#" >> \o hslChannel(0, h, s, l) \o hslChannel(4, h, s, l) \o hslChannel(8, h, s, l)

hslToHex(h, s, l) ==
    << "#" >> \o hslChannel(0, h, s, l) \o hslChannel(8, h, s, l) \o hslChannel(4, h, s, l)

(***************************************************************************)
(* generateShadesFromPrimary                                               *)
(***************************************************************************)
lightnessLevels == << 92, 78, 64, 50, 36 >>

generateShadesFromPrimaryThrows(primaryHex) == hexToHSLThrows(primaryHex)

\* generateShadesFromPrimary walking the levels from dark to light
generateShadesFromPrimary_darkToLight(primaryHex) ==
    LET c == hexToHSL(primaryHex)
        n == Len(lightnessLevels)
    IN  [ i \in 1..n |-> hslToHex(c.h, c.s, lightnessLevels[n + 1 - i]) ]

generateShadesFromPrimary(primaryHex) ==
    LET c == hexToHSL(primaryHex)
    IN  [ i \in 1..Len(lightnessLevels) |-> hslToHex(c.h, c.s, lightnessLevels[i]) ]

(***************************************************************************)
(* getLuminance, getContrastRatio, getContrastTextColor.                   *)
(* A luminance is kept in units of 1/100000, a contrast ratio in units of  *)
(* 1/10000 (4.5 is 45000, 21 is 210000).                                   *)
(***************************************************************************)
\* Math.pow((c/255 + 0.055) / 1.055, 2.4) for c = 0..255, entry c + 1,
\* to the nearest 1/100000
pow24 ==
    << 83, 98, 115, 133, 152, 173, 196, 220, 246, 274, 303, 335,
       368, 402, 439, 478, 518, 561, 605, 651, 700, 750, 802, 857,
       913, 972, 1033, 1096, 1161, 1229, 1298, 1370, 1444, 1521, 1600, 1681,
       1764, 1850, 1938, 2029, 2122, 2217, 2315, 2416, 2519, 2624, 2732, 2843,
       2956, 3071, 3190, 3310, 3434, 3560, 3689, 3820, 3955, 4092, 4231, 4374,
       4519, 4667, 4817, 4971, 5127, 5286, 5448, 5613, 5781, 5951, 6125, 6301,
       6480, 6663, 6848, 7036, 7227, 7421, 7619, 7819, 8022, 8228, 8438, 8650,
       8866, 9084, 9306, 9531, 9759, 9990, 10224, 10462, 10702, 10946, 11193, 11444,
       11697, 11954, 12214, 12477, 12744, 13014, 13287, 13563, 13843, 14126, 14413, 14703,
       14996, 15293, 15593, 15896, 16203, 16513, 16827, 17144, 17465, 17789, 18116, 18447,
       18782, 19120, 19462, 19807, 20156, 20508, 20864, 21223, 21586, 21953, 22323, 22697,
       23074, 23455, 23840, 24228, 24620, 25016, 25415, 25818, 26225, 26636, 27050, 27468,
       27889, 28315, 28744, 29177, 29614, 30054, 30499, 30947, 31399, 31855, 32314, 32778,
       33245, 33716, 34191, 34670, 35153, 35640, 36131, 36625, 37124, 37626, 38133, 38643,
       39157, 39676, 40198, 40724, 41254, 41789, 42327, 42869, 43415, 43966, 44520, 45079,
       45641, 46208, 46778, 47353, 47932, 48515, 49102, 49693, 50289, 50888, 51492, 52100,
       52712, 53328, 53948, 54572, 55201, 55834, 56471, 57112, 57758, 58408, 59062, 59720,
       60383, 61050, 61721, 62396, 63076, 63760, 64448, 65141, 65837, 66539, 67244, 67954,
       68669, 69387, 70110, 70838, 71569, 72306, 73046, 73791, 74540, 75294, 76052, 76815,
       77582, 78354, 79130, 79910, 80695, 81485, 82279, 83077, 83880, 84687, 85499, 86316,
       87137, 87962, 88792, 89627, 90466, 91310, 92158, 93011, 93869, 94731, 95597, 96469,
       97345, 98225, 99110, 100000 >>

\* one channel of getLuminance: val <= 0.03928 ? val / 12.92 : Math.pow(...)
\* val <= 0.03928  <=>  100000 c <= 3928 * 255;  val / 12.92 = 10^7 c / 329460
linearChannel(pair) ==
    LET c == parseInt16(pair)
    IN  IF 100000 * c <= 3928 * 255
        THEN (2 * 10000000 * c + 329460) \div (2 * 329460)
        ELSE pow24[c + 1]

getLuminance(hex) ==
    LET result == HEX_REGEX(hex)
    IN  IF result = NoMatch THEN 0
        ELSE ( 2126 * linearChannel(result[1])
             + 7152 * linearChannel(result[2])
             +  722 * linearChannel(result[3]) + 5000 ) \div 10000

\* getContrastRatio dividing foreground by background without ordering them
getContrastRatio_unordered(foreground, background) ==
    LET L1 == getLuminance(foreground)
        L2 == getLuminance(background)
    IN  ((L1 + 5000) * 10000) \div (L2 + 5000)

getContrastRatio(foreground, background) ==
    LET L1 == getLuminance(foreground)
        L2 == getLuminance(background)
        lighter == Max2(L1, L2)
        darker == Min2(L1, L2)
    IN  ((lighter + 5000) * 10000) \div (darker + 5000)

black == << "#", "0", "1", "0", "1", "0", "1" >>
white == << "#", "F", "F", "F", "F", "F", "F" >>

\* the decision with > in place of >= where both ratios are compared
textColorFor_strictTie(ratioBlack, ratioWhite) ==
    LET blackPasses == ratioBlack >= 45000
        whitePasses == ratioWhite >= 45000
    IN  IF blackPasses /\ whitePasses
        THEN (IF ratioBlack > ratioWhite THEN black ELSE white)
        ELSE IF blackPasses THEN black
        ELSE IF whitePasses THEN white
        ELSE (IF ratioBlack > ratioWhite THEN black ELSE white)

\* the decision that returns black whenever black passes, without comparing
textColorFor_blackWhenPasses(ratioBlack, ratioWhite) ==
    LET blackPasses == ratioBlack >= 45000
        whitePasses == ratioWhite >= 45000
    IN  IF blackPasses THEN black
        ELSE IF whitePasses THEN white
        ELSE (IF ratioBlack >= ratioWhite THEN black ELSE white)

\* the decision of getContrastTextColor once both ratios are known
textColorFor(ratioBlack, ratioWhite) ==
    LET blackPasses == ratioBlack >= 45000
        whitePasses == ratioWhite >= 45000
    IN  IF blackPasses /\ whitePasses
        THEN (IF ratioBlack >= ratioWhite THEN black ELSE white)
        ELSE IF blackPasses THEN black
        ELSE IF whitePasses THEN white
        ELSE (IF ratioBlack >= ratioWhite THEN black ELSE white)

getContrastTextColor(hexBackground) ==
    textColorFor(getContrastRatio(black, hexBackground),
                 getContrastRatio(white, hexBackground))

\* getContrastTextColor has no throw statement and calls only getContrastRatio
\* and getLuminance, which have none either
getContrastTextColorThrows(hexBackground) == FALSE

(***************************************************************************)
(* The colour utilities as a state machine: one input, and one step per    *)
(* exported function applied to it.                                        *)
(***************************************************************************)
\* "#rrggbb" of three bytes, formatted as hslToHex formats its channels
HexOf(R, G, B) ==
    << "#" >> \o padStart2(toString16(R)) \o padStart2(toString16(G))
              \o padStart2(toString16(B))

indigo == << "#", "6", "3", "6", "6", "f", "1" >>

\* channel values of the enumerated colours: both ends of the range, the
\* bytes of the documented example #6366f1, and two mid greys
Chan == (0..MaxLow) \cup ((255 - MaxLow)..255) \cup { 99, 102, 118, 128, 241 }

\* valid colours: "#rrggbb" in lower case, and some as "RRGGBB" or "#RRGGBB"
ColourInputs ==
    { HexOf(r, g, b) : r \in Chan, g \in Chan, b \in Chan }
    \cup { Tail(UpperCase(HexOf(r, g, b))) : r \in { 0, 99, 255 }, g \in { 0, 102, 255 },
                                             b \in { 1, 241, 255 } }
    \cup { white, HexOf(2, 228, 230) }

\* the second colour of a contrast computation
Others == { white, black, HexOf(0, 0, 0), indigo }

\* no background: the decision of getContrastTextColor is run on a sampled
\* pair of ratios
NoBackground == << "none" >>

\* sampled contrast ratios, in units of 1/10000: the range's ends, the 4.5
\* threshold and its neighbours
RatioSamples == { 10000, 30000, 44999, 45000, 45001, 60000, 210000 }

CoreIdle ==
    /\ pc = "start"
    /\ threw = FALSE
    /\ valid = FALSE
    /\ hsl = [ h |-> 0, s |-> 0, l |-> 0 ]
    /\ shadeSet = << >>
    /\ back = << >>
    /\ rt = << >>
    /\ other = << >>
    /\ ratios = << 0, 0 >>
    /\ text = << >>

UIIdle ==
    /\ primary = << >>
    /\ shades = << >>
    /\ ev = [ kind |-> "none", index |-> 0, value |-> << >>, shown |-> << >>,
              calls |-> { } ]

Init ==
    /\ tieUp \in BOOLEAN
    /\ input \in ColourInputs \cup { NoBackground }
    /\ CoreIdle
    /\ UIIdle

CallIsValidHex ==
    /\ pc = "start" /\ input # NoBackground
    /\ valid' = isValidHex(input)
    /\ pc' = "isValidHex"
    /\ UNCHANGED << tieUp, input, threw, hsl, shadeSet, back, rt, other, ratios, text >>
    /\ UNCHANGED uiVars

CallHexToHSL ==
    /\ pc = "start" /\ input # NoBackground
    /\ IF hexToHSLThrows(input)
       THEN threw' = TRUE /\ hsl' = hsl
       ELSE threw' = FALSE /\ hsl' = hexToHSL(input)
    /\ pc' = "hexToHSL"
    /\ UNCHANGED << tieUp, input, valid, shadeSet, back, rt, other, ratios, text >>
    /\ UNCHANGED uiVars

\* the round trip: hslToHex on the triple hexToHSL returned
CallHslToHex ==
    /\ pc = "hexToHSL" /\ ~threw
    /\ rt' = hslToHex(hsl.h, hsl.s, hsl.l)
    /\ pc' = "hslToHex"
    /\ UNCHANGED << tieUp, input, threw, valid, hsl, shadeSet, back, other, ratios, text >>
    /\ UNCHANGED uiVars

CallGenerateShades ==
    /\ pc = "start" /\ input # NoBackground
    /\ IF generateShadesFromPrimaryThrows(input)
       THEN threw' = TRUE /\ shadeSet' = shadeSet
       ELSE threw' = FALSE /\ shadeSet' = generateShadesFromPrimary(input)
    /\ pc' = "generateShades"
    /\ UNCHANGED << tieUp, input, valid, hsl, back, rt, other, ratios, text >>
    /\ UNCHANGED uiVars

\* hexToHSL on every generated shade
CallDecomposeShades ==
    /\ pc = "generateShades" /\ ~threw
    /\ \A i \in 1..Len(shadeSet) : ~hexToHSLThrows(shadeSet[i])
    /\ back' = [ i \in 1..Len(shadeSet) |-> hexToHSL(shadeSet[i]) ]
    /\ pc' = "decompose"
    /\ UNCHANGED << tieUp, input, threw, valid, hsl, shadeSet, rt, other, ratios, text >>
    /\ UNCHANGED uiVars

\* getContrastRatio is module-private: it is reached through
\* getContrastTextColor, here with both argument orders
CallGetContrastRatio ==
    /\ pc = "start" /\ input # NoBackground
    /\ \E o \in Others :
         /\ other' = o
         /\ ratios' = << getContrastRatio(input, o), getContrastRatio(o, input) >>
    /\ pc' = "getContrastRatio"
    /\ UNCHANGED << tieUp, input, threw, valid, hsl, shadeSet, back, rt, text >>
    /\ UNCHANGED uiVars

CallGetContrastTextColor ==
    /\ pc = "start" /\ input # NoBackground
    /\ threw' = getContrastTextColorThrows(input)
    /\ ratios' = << getContrastRatio(black, input), getContrastRatio(white, input) >>
    /\ text' = getContrastTextColor(input)
    /\ pc' = "getContrastTextColor"
    /\ UNCHANGED << tieUp, input, valid, hsl, shadeSet, back, rt, other >>
    /\ UNCHANGED uiVars

\* lines 535-543 alone, on a sampled pair of ratios
CallTextColorFor ==
    /\ pc = "start" /\ input = NoBackground
    /\ \E rb \in RatioSamples, rw \in RatioSamples :
         /\ ratios' = << rb, rw >>
         /\ text' = textColorFor(rb, rw)
    /\ pc' = "textColorFor"
    /\ UNCHANGED << tieUp, input, threw, valid, hsl, shadeSet, back, rt, other >>
    /\ UNCHANGED uiVars

Next ==
    \/ CallIsValidHex
    \/ CallHexToHSL
    \/ CallHslToHex
    \/ CallGenerateShades
    \/ CallDecomposeShades
    \/ CallGetContrastRatio
    \/ CallGetContrastTextColor
    \/ CallTextColorFor

Spec == Init /\ [][Next]_vars

(***************************************************************************)
(* The same utilities on arbitrary strings.                                *)
(***************************************************************************)
\* one "#", one hexadecimal digit, one character outside the class
Alphabet == { "#", "f", "z" }

\* characters beside the class's edges, each tried as the last of "#63666x"
EdgeChars == HexChars \cup { "g", "G", "z", " ", "-", "#" }

\* every string over Alphabet up to MaxLen characters, the strings the
\* documentation names, the edge characters, and null
StringInputs ==
    UNION { [ 1..n -> Alphabet ] : n \in 0..MaxLen }
    \cup { indigo, Tail(indigo), UpperCase(indigo), Tail(UpperCase(indigo)),
           << "#", "f", "0", "0" >>, << " " >>, << "n", "u", "l", "l" >>, Null,
           white, black }
    \cup { << "#", "6", "3", "6", "6", "6", c >> : c \in EdgeChars }

InitStrings ==
    /\ tieUp \in BOOLEAN
    /\ input \in StringInputs
    /\ CoreIdle
    /\ UIIdle

NextStrings ==
    \/ CallIsValidHex
    \/ CallHexToHSL
    \/ CallGenerateShades
    \/ CallGetContrastTextColor

SpecStrings == InitStrings /\ [][NextStrings]_vars

(***************************************************************************)
(* Properties.                                                             *)
(***************************************************************************)
Abs(x) == IF x < 0 THEN -x ELSE x

\* the three bytes of a valid hex colour
ChannelsOf(hex) ==
    LET m == HEX_REGEX(hex)
    IN  << parseInt16(m[1]), parseInt16(m[2]), parseInt16(m[3]) >>

\* distance of two hues on the colour wheel
HueDistance(a, b) ==
    LET d == Abs(a - b) % 360
    IN  Min2(d, 360 - d)

C2_LightnessExact ==
    (pc = "generateShades" => (~threw /\ Len(shadeSet) = 5))
    /\ (pc = "decompose" =>
          /\ Len(back) = 5
          /\ \A i \in 1..5 : back[i].l = << 92, 78, 64, 50, 36 >>[i]
          /\ \A i \in 1..4 : back[i].l > back[i + 1].l)

C2_Witness ==
    /\ pc = "decompose" /\ input = indigo
    /\ back[1].l = 92 /\ back[5].l = 36

C4_RoundTripWithin1 ==
    pc = "hslToHex" =>
        /\ isValidHex(rt)
        /\ \A c \in 1..3 : Abs(ChannelsOf(rt)[c] - ChannelsOf(input)[c]) <= 1

\* C4 amended: hslToHex(hexToHSL(P)) is within 5 of P in every channel.
C4_RoundTripWithin5 ==
    pc = "hslToHex" =>
        /\ isValidHex(rt)
        /\ \A c \in 1..3 : Abs(ChannelsOf(rt)[c] - ChannelsOf(input)[c]) <= 5

C4_Witness ==
    /\ pc = "hslToHex" /\ input = HexOf(2, 228, 230)
    /\ \E c \in 1..3 : Abs(ChannelsOf(rt)[c] - ChannelsOf(input)[c]) = 5

\* C5 as stated: getContrastTextColor fails with the invalid-colour error on
\* every input that does not match the pattern, as hexToHSL and
\* generateShadesFromPrimary do.
C5_InvalidInputThrows ==
    (pc \in { "hexToHSL", "generateShades", "getContrastTextColor" }
        /\ ~isValidHex(input)) => threw

\* C6: getContrastTextColor returns #010101 or #FFFFFF by the rule: both or
\* neither ratio >= 4.5, black when ratioBlack >= ratioWhite else white; only
\* one >= 4.5, that one.  White gives #010101 and #010101 gives #FFFFFF.
C6_Rule(ratioBlack, ratioWhite) ==
    IF (ratioBlack >= 45000) = (ratioWhite >= 45000)
    THEN (IF ratioBlack >= ratioWhite THEN black ELSE white)
    ELSE (IF ratioBlack >= 45000 THEN black ELSE white)

C6_TextColorRule ==
    /\ pc \in { "getContrastTextColor", "textColorFor" } =>
          /\ text \in { black, white }
          /\ text = C6_Rule(ratios[1], ratios[2])
    /\ pc = "getContrastTextColor" =>
          /\ ~threw
          /\ text = C6_Rule(getContrastRatio(black, input), getContrastRatio(white, input))
          /\ input = white => text = black
          /\ input = black => text = white

C6_Witness ==
    /\ pc = "getContrastTextColor" /\ input = HexOf(118, 118, 118)
    /\ ratios[1] >= 45000 /\ ratios[2] >= 45000 /\ text = black

\* C7: isValidHex(v) is true exactly when v is six hexadecimal digits, either
\* case, after at most one leading "#"; false for 3 digits, other lengths,
\* other characters, the empty string and null.
C7_SixDigits(v) ==
    /\ v # Null
    /\ LET body == IF v # << >> /\ Head(v) = "#" THEN Tail(v) ELSE v
       IN  /\ Len(body) = 6
           /\ \A i \in 1..6 :
                body[i] \in { "0", "1", "2", "3", "4", "5", "6", "7", "8", "9",
                              "a", "b", "c", "d", "e", "f",
                              "A", "B", "C", "D", "E", "F" }

C7_IsValidHexExact ==
    pc = "isValidHex" =>
        /\ valid = C7_SixDigits(input)
        /\ input = indigo => valid
        /\ input = Tail(indigo) => valid
        /\ input \in { << "#", "f", "0", "0" >>, << >>, Null,
                       << "#", "z", "z", "z", "z", "z", "z" >> } => ~valid

C7_Witness ==
    /\ pc = "isValidHex" /\ input = << "f", "f", "f", "f", "f", "f" >> /\ valid

\* C8: the contrast ratio of two valid colours is the same in both argument
\* orders and lies between 1 and 21.
C8_ContrastSymmetricInRange ==
    pc = "getContrastRatio" =>
        /\ ratios[1] = ratios[2]
        /\ 10000 <= ratios[1] /\ ratios[1] <= 210000

C8_Witness ==
    /\ pc = "getContrastRatio" /\ input = white /\ other = HexOf(0, 0, 0)
    /\ ratios = << 210000, 210000 >>

\* C9 as stated: the hue hexToHSL returns is in [0, 360); 360 never is.
C9_HueBelow360 ==
    (pc = "hexToHSL" /\ ~threw) => (hsl.h >= 0 /\ hsl.h < 360)

\* C9 amended: the hue hexToHSL returns is an integer in [0, 360]; it is not
\* wrapped, and 360 is returned for reds just below the wrap point (#ff0001).
C9_HueUpTo360 ==
    (pc = "hexToHSL" /\ ~threw) =>
        /\ hsl.h \in 0..360
        /\ input = HexOf(255, 0, 1) => hsl.h = 360

C9_Witness == pc = "hexToHSL" /\ input = HexOf(255, 0, 1) /\ hsl.h = 360

(***************************************************************************)
(* ThemeColorPicker.  A JavaScript array is a sequence; entry i of the     *)
(* array is element i + 1.  A hole or undefined entry is Undefined.        *)
(***************************************************************************)
\* the em dash of line 9, written as an ASCII dash
PLACEHOLDER == << "-" >>

\* the value undefined: no string
Undefined == << "undefined" >>

\* arr[i]
ArrayGet(arr, i) == IF i + 1 <= Len(arr) THEN arr[i + 1] ELSE Undefined

\* next = [...prev]; next[i] = v
ArraySet(arr, i, v) ==
    [ k \in 1..Max2(Len(arr), i + 1) |->
        IF k = i + 1 THEN v
        ELSE IF k <= Len(arr) THEN arr[k]
        ELSE Undefined ]

\* a value is truthy unless it is undefined or the empty string
Truthy(v) == v # Undefined /\ v # << >>

IsHexChar(c) == c \in HexChars
IsSpace(c) == c = " "

\* String.prototype.trim
RECURSIVE trim(_)
trim(value) ==
    IF value = << >> THEN value
    ELSE IF IsSpace(Head(value)) THEN trim(Tail(value))
    ELSE IF IsSpace(value[Len(value)]) THEN trim(SubSeq(value, 1, Len(value) - 1))
    ELSE value

normalizeHex(value) ==
    LET cleaned == SelectSeq(value, IsHexChar)
    IN  IF Len(cleaned) = 6 THEN << "#" >> \o cleaned
        ELSE IF Len(cleaned) = 3
        THEN << "#", cleaned[1], cleaned[1], cleaned[2], cleaned[2],
                cleaned[3], cleaned[3] >>
        ELSE IF value # << >> THEN << "#" >> \o cleaned
        ELSE << >>

hasTheme == primary # << >> /\ isValidHex(primary)

\* [primary, shades] after handlePrimaryChange(value)
handlePrimaryChange(value) ==
    LET hex == normalizeHex(value)
    IN  IF hex = << >> THEN [ primary |-> << >>, shades |-> << >> ]
        ELSE IF isValidHex(hex)
        THEN [ primary |-> hex, shades |-> generateShadesFromPrimary(hex) ]
        ELSE [ primary |-> hex, shades |-> shades ]

\* [primary, shades] after handlePrimaryInputBlur with e.target.value = value
handlePrimaryInputBlur(value) ==
    LET hex == normalizeHex(value)
    IN  IF hex # << >> /\ isValidHex(hex)
        THEN [ primary |-> hex, shades |-> generateShadesFromPrimary(hex) ]
        ELSE IF trim(value) = << >>
        THEN [ primary |-> << >>, shades |-> << >> ]
        ELSE [ primary |-> primary, shades |-> shades ]

\* handleShadeChange that ignores an emptied field
handleShadeChange_keepsOnClear(index, value) ==
    LET hex == normalizeHex(value)
    IN  IF hex # << >> /\ isValidHex(hex) THEN ArraySet(shades, index, hex)
        ELSE shades

\* handleShadeChange that stores the normalised text without validating it
handleShadeChange_unvalidated(index, value) ==
    LET hex == normalizeHex(value)
    IN  IF hex # << >> THEN ArraySet(shades, index, hex)
        ELSE IF trim(value) = << >> THEN ArraySet(shades, index, << >>)
        ELSE shades

\* shades after handleShadeChange(index, value)
handleShadeChange(index, value) ==
    LET hex == normalizeHex(value)
    IN  IF hex # << >> /\ isValidHex(hex) THEN ArraySet(shades, index, hex)
        ELSE IF trim(value) = << >> THEN ArraySet(shades, index, << >>)
        ELSE shades

\* shades after handleShadeBlur(index, value)
handleShadeBlur(index, value) ==
    IF primary = << >> \/ ~isValidHex(primary) THEN shades
    ELSE LET hex == normalizeHex(value)
         IN  IF hex # << >> /\ isValidHex(hex) THEN ArraySet(shades, index, hex)
             ELSE ArraySet(shades, index, generateShadesFromPrimary(primary)[index + 1])

\* the arguments handlePrimaryChange(value) passes to generateShadesFromPrimary
handlePrimaryChangeCalls(value) ==
    LET hex == normalizeHex(value)
    IN  IF hex # << >> /\ isValidHex(hex) THEN { hex } ELSE { }

\* the arguments handlePrimaryInputBlur passes to generateShadesFromPrimary
handlePrimaryInputBlurCalls(value) ==
    LET hex == normalizeHex(value)
    IN  IF hex # << >> /\ isValidHex(hex) THEN { hex } ELSE { }

\* the arguments handleShadeBlur passes to generateShadesFromPrimary
handleShadeBlurCalls(index, value) ==
    IF primary = << >> \/ ~isValidHex(primary) THEN { }
    ELSE LET hex == normalizeHex(value)
         IN  IF hex # << >> /\ isValidHex(hex) THEN { } ELSE { primary }

defaults == IF hasTheme THEN generateShadesFromPrimary(primary) ELSE << >>

\* shades[i] || defaults[i]
shadeOrDefault(dflt, i) ==
    IF Truthy(ArrayGet(shades, i)) THEN ArrayGet(shades, i) ELSE ArrayGet(dflt, i)

\* the five entries shades[i] || defaults[i], i = 0..4
shadesOrDefaults(dflt) ==
    << shadeOrDefault(dflt, 0), shadeOrDefault(dflt, 1), shadeOrDefault(dflt, 2),
       shadeOrDefault(dflt, 3), shadeOrDefault(dflt, 4) >>

displayShades == IF hasTheme THEN shadesOrDefaults(defaults) ELSE << >>

cssVars == IF hasTheme THEN << primary >> \o shadesOrDefaults(defaults) ELSE << >>

\* the values of --color-primary, --color-50 ... --color-500 in the <pre> block
cssText ==
    IF hasTheme
    THEN << ArrayGet(cssVars, 0), ArrayGet(cssVars, 1), ArrayGet(cssVars, 2),
            ArrayGet(cssVars, 3), ArrayGet(cssVars, 4), ArrayGet(cssVars, 5),
            ArrayGet(cssVars, 5) >>
    ELSE << PLACEHOLDER, PLACEHOLDER, PLACEHOLDER, PLACEHOLDER, PLACEHOLDER,
            PLACEHOLDER, PLACEHOLDER >>

\* const color = displayShades[i] of tile i
tileColor(i) == ArrayGet(displayShades, i)

\* const isEmpty = !color || color === PLACEHOLDER
isEmpty(color) == ~Truthy(color) \/ color = PLACEHOLDER

\* the arguments the render passes to getContrastTextColor, one per tile
\* that is not empty
contrastTextCalls == { tileColor(i) : i \in { j \in 0..4 : ~isEmpty(tileColor(j)) } }

\* the arguments the render passes to generateShadesFromPrimary
renderShadeCalls == IF hasTheme THEN { primary } ELSE { }

\* value of shade i's text field: shades[i] ?? ''
shadeField(i) == IF ArrayGet(shades, i) = Undefined THEN << >> ELSE ArrayGet(shades, i)

\* what an <input type="color"> can report: "#rrggbb" in lower case
PickerColours == { indigo, HexOf(255, 0, 1) }

\* what the user leaves in the primary text field
TypedPrimary ==
    { << >>, << "#", "f", "0", "0" >>, << "#", "1", "2" >>, << " " >>,
      << "#", "1", "2", "3", "4", "5", "6", "7" >>, << "z" >> }

\* what the user leaves in a shade text field
TypedShade ==
    { << >>, << " " >>, << "#", "a", "b", "c" >>, << "#", "1", "2" >>,
      << "#", "g", "g", "g", "g", "g", "g" >> }

\* the shade fields the user edits
EditedIndices == (0..MaxEdit) \cup { 4 }

InitUI ==
    /\ tieUp \in BOOLEAN
    /\ input = << >>
    /\ CoreIdle
    /\ UIIdle

\* onChange of the primary colour input (line 132) or text input (line 148)
PrimaryChange ==
    /\ \E v \in PickerColours \cup TypedPrimary :
         LET st == handlePrimaryChange(v)
         IN  /\ primary' = st.primary
             /\ shades' = st.shades
             /\ ev' = [ kind |-> "primaryChange", index |-> 0, value |-> v,
                    shown |-> displayShades,
                    calls |-> handlePrimaryChangeCalls(v) ]
    /\ UNCHANGED tieUp
    /\ UNCHANGED coreVars

\* onBlur of the primary text input, whose value is primary
PrimaryBlur ==
    /\ LET st == handlePrimaryInputBlur(primary)
       IN  /\ primary' = st.primary
           /\ shades' = st.shades
           /\ ev' = [ kind |-> "primaryBlur", index |-> 0, value |-> primary,
                    shown |-> displayShades,
                    calls |-> handlePrimaryInputBlurCalls(primary) ]
    /\ UNCHANGED tieUp
    /\ UNCHANGED coreVars

\* onChange of shade i's colour input, which is never disabled
ShadePick ==
    /\ \E i \in EditedIndices, v \in PickerColours :
         /\ shades' = handleShadeChange(i, v)
         /\ ev' = [ kind |-> "shadeChange", index |-> i, value |-> v,
                    shown |-> displayShades, calls |-> { } ]
    /\ UNCHANGED << tieUp, primary >>
    /\ UNCHANGED coreVars

\* onChange of shade i's text input, disabled without a theme
ShadeType ==
    /\ hasTheme
    /\ \E i \in EditedIndices, v \in TypedShade :
         /\ shades' = handleShadeChange(i, v)
         /\ ev' = [ kind |-> "shadeChange", index |-> i, value |-> v,
                    shown |-> displayShades, calls |-> { } ]
    /\ UNCHANGED << tieUp, primary >>
    /\ UNCHANGED coreVars

\* onBlur of shade i's text input, whose value is shades[i] ?? ''
ShadeBlur ==
    /\ hasTheme
    /\ \E i \in EditedIndices :
         /\ shades' = handleShadeBlur(i, shadeField(i))
         /\ ev' = [ kind |-> "shadeBlur", index |-> i, value |-> shadeField(i),
                    shown |-> displayShades,
                    calls |-> handleShadeBlurCalls(i, shadeField(i)) ]
    /\ UNCHANGED << tieUp, primary >>
    /\ UNCHANGED coreVars

NextUI ==
    \/ PrimaryChange
    \/ PrimaryBlur
    \/ ShadePick
    \/ ShadeType
    \/ ShadeBlur

SpecUI == InitUI /\ [][NextUI]_vars

\* the event handled last emptied a shade field, or left (blurred) a shade
\* field holding the empty string or an invalid hex
RevertingEvent(e) ==
    \/ e.kind = "shadeChange" /\ trim(e.value) = << >>
    \/ e.kind = "shadeBlur" /\ (e.value = << >> \/ ~isValidHex(e.value))

\* C10: with a valid primary, when the user clears shade i's field, or blurs it
\* while it holds an empty or invalid hex, the colour displayed and emitted as
\* CSS variable for i becomes generateShadesFromPrimary(primary)[i], and the
\* displayed colours of the other four indices do not change.
C10_ClearOrInvalidReverts ==
    (hasTheme /\ RevertingEvent(ev)) =>
        LET i == ev.index
            auto == generateShadesFromPrimary(primary)[i + 1]
        IN  /\ Len(ev.shown) = 5
            /\ displayShades[i + 1] = auto
            /\ cssVars[i + 2] = auto
            /\ cssText[i + 2] = auto
            /\ \A j \in (0..4) \ { i } :
                 /\ displayShades[j + 1] = ev.shown[j + 1]
                 /\ cssVars[j + 2] = ev.shown[j + 1]

\* shade 0 was blurred while empty and now holds the generated colour, while
\* shade 4 carries a manual override
C10_Witness ==
    /\ hasTheme
    /\ ev.kind = "shadeBlur" /\ ev.index = 0 /\ ev.value = << >>
    /\ ArrayGet(shades, 0) = generateShadesFromPrimary(primary)[1]
    /\ ArrayGet(shades, 4) = << "#", "a", "a", "b", "b", "c", "c" >>
    /\ displayShades[5] = << "#", "a", "a", "b", "b", "c", "c" >>

\* the step handles a primary change or a primary blur and leaves the valid
\* primary as it was
PrimaryKeptStep ==
    /\ hasTheme
    /\ ev'.kind \in { "primaryChange", "primaryBlur" }
    /\ primary' = primary

\* C11: an event that leaves the (valid) primary colour unchanged and does not
\* edit a shade (a blur of the primary text input holding the current primary,
\* a primary change carrying the same value) leaves each of the five stored
\* shade values, manual overrides included, unchanged.
C11_ShadesKeptWhenPrimaryKept ==
    [][ PrimaryKeptStep =>
          \A i \in 0..4 : ArrayGet(shades', i) = ArrayGet(shades, i) ]_vars

\* C12: in every reachable state of ThemeColorPicker, with a valid primary
\* each of the five displayed shades is a valid 6-digit hex; the arguments
\* the handlers and the render pass to generateShadesFromPrimary and to
\* getContrastTextColor are valid hex colours, so none of these calls
\* throws; without a valid primary no shade is displayed and the CSS block
\* shows placeholders only.
C12_UINeverFeedsInvalidColour ==
    /\ hasTheme =>
         /\ Len(displayShades) = 5
         /\ \A i \in 1..5 : isValidHex(displayShades[i])
    /\ \A a \in ev.calls \cup renderShadeCalls :
         isValidHex(a) /\ ~generateShadesFromPrimaryThrows(a)
    /\ \A a \in contrastTextCalls :
         isValidHex(a) /\ ~getContrastTextColorThrows(a)
    /\ ~hasTheme =>
         /\ displayShades = << >>
         /\ contrastTextCalls = { }
         /\ \A k \in 1..7 : cssText[k] = PLACEHOLDER

\* a theme with a manual override on shade 4 whose last event, a blur of
\* the emptied shade 0, called generateShadesFromPrimary(primary), and whose
\* five tiles each ask for a text colour
C12_Witness ==
    /\ hasTheme
    /\ ev.kind = "shadeBlur" /\ ev.index = 0 /\ ev.calls = { primary }
    /\ ArrayGet(shades, 4) = indigo
    /\ Cardinality(contrastTextCalls) = 5

\* no theme although shades are still stored: nothing is displayed
C12_WitnessNoTheme ==
    /\ ~hasTheme
    /\ primary # << >>
    /\ Len(shades) = 5

\* the contrast ratio of the text colour that was returned
ReturnedRatio == IF text = black THEN ratios[1] ELSE ratios[2]

\* C13: for every pair (ratioBlack, ratioWhite) the colour returned by
\* getContrastTextColor is the candidate with the larger ratio, black on
\* equality, whatever the 4.5 threshold branches decide; so when black or
\* white reaches 4.5 against the background, the returned colour reaches 4.5.
C13_ReturnsLargerRatio ==
    pc \in { "getContrastTextColor", "textColorFor" } =>
        /\ text = (IF ratios[1] >= ratios[2] THEN black ELSE white)
        /\ ReturnedRatio = Max2(ratios[1], ratios[2])
        /\ (ratios[1] >= 45000 \/ ratios[2] >= 45000) => ReturnedRatio >= 45000

\* only white passes, by the smallest margin: the threshold branch
\* `if (whitePasses) return white` is the one that returns
C13_Witness ==
    /\ pc = "textColorFor"
    /\ ratios = << 44999, 45000 >>
    /\ text = white

====
